---- MODULE Spec2Model ----
(***************************************************************************)
(* Model of coursebuilder/controllers/utils.py: the reflective action      *)
(* dispatcher, URL canonicalization and redirect, the enrollment resolver  *)
(* and the student page handlers.                                          *)
(*                                                                         *)
(* Strings that the code inspects character by character (URLs, slugs)     *)
(* are sequences of one-character strings.                                 *)
(***************************************************************************)
EXTENDS Integers, Sequences, FiniteSets, TLC

VARIABLES
    url,        \* a call of canonicalize_url / redirect: its inputs and result
    cls,        \* a ReflectiveRequestHandler subclass: its class attributes
    dresp,      \* the last request served by ReflectiveRequestHandler
    students,   \* the persisted Student records, keyed by email
    env,        \* app_context: course settings, slug, login URL, track labels
    resp        \* the last request served by a page handler

vars == <<url, cls, dresp, students, env, resp>>

None == "None"

(***************************************************************************)
(* Bounds                                                                  *)
(***************************************************************************)
MaxUrlLen == 4
MaxLabelId == 2

(***************************************************************************)
(* Strings                                                                 *)
(***************************************************************************)
startswith(s, prefix) ==
    /\ Len(prefix) <= Len(s)
    /\ SubSeq(s, 1, Len(prefix)) = prefix

\* Python truthiness of a string
Truthy(s) == s # <<>>

Find(s, c) ==
    IF \E i \in 1..Len(s) : s[i] = c
    THEN CHOOSE i \in 1..Len(s) : s[i] = c /\ \A j \in 1..(i - 1) : s[j] # c
    ELSE 0

RECURSIVE SeqsUpTo(_, _)
SeqsUpTo(S, n) ==
    IF n = 0 THEN {<<>>}
    ELSE LET shorter == SeqsUpTo(S, n - 1)
         IN  shorter \cup {Append(s, c) : s \in shorter, c \in S}

Root == <<"/">>
SlugPhysics == <<"/", "p", "h", "y", "s", "i", "c", "s">>
SlugP == <<"/", "p">>
PathCourse == <<"/", "c", "o", "u", "r", "s", "e">>
PathPreview == <<"/", "p", "r", "e", "v", "i", "e", "w">>
PathStudentHome == <<"/", "s", "t", "u", "d", "e", "n", "t", "/", "h", "o", "m", "e">>
Fragment(path, name) == path \o <<"#">> \o name
RegistrationClosed == <<"r", "e", "g", "-", "c", "l", "o", "s", "e", "d">>
RegistrationConfirmation == <<"r", "e", "g", "-", "c", "o", "n", "f">>
PathPhysics2X == <<"/", "p", "h", "y", "s", "i", "c", "s", "2", "/", "x">>
AbsoluteLogin == <<"h", "t", "t", "p", "s", ":", "/", "/", "g", "/", "l", "o", "g", "i", "n">>
RelativeLogin == <<"/", "_", "a", "h", "/", "l", "o", "g", "i", "n">>

(***************************************************************************)
(* ApplicationHandler.is_absolute: bool(urlparse.urlparse(url).scheme).    *)
(* urlsplit finds a scheme when the text before the first ':' is non-empty *)
(* and made of scheme characters, and what follows is not a port number.   *)
(***************************************************************************)
Digits == {"0", "1", "2", "3", "4", "5", "6", "7", "8", "9"}
SchemeChars == Digits \cup {"+", "-", "."} \cup
    {"a", "b", "c", "d", "e", "f", "g", "h", "i", "j", "k", "l", "m",
     "n", "o", "p", "q", "r", "s", "t", "u", "v", "w", "x", "y", "z"}

urlparse_scheme(u) ==
    LET i == Find(u, ":")
        rest == SubSeq(u, i + 1, Len(u))
    IN  IF i > 1
        THEN IF SubSeq(u, 1, i - 1) = <<"h", "t", "t", "p">>
             THEN SubSeq(u, 1, i - 1)
             ELSE IF /\ \A k \in 1..(i - 1) : u[k] \in SchemeChars
                     /\ (rest = <<>> \/ \E k \in 1..Len(rest) : rest[k] \notin Digits)
                  THEN SubSeq(u, 1, i - 1)
                  ELSE <<>>
        ELSE <<>>

is_absolute(u) == Truthy(urlparse_scheme(u))

(***************************************************************************)
(* ApplicationHandler.canonicalize_url and redirect                        *)
(***************************************************************************)
canonicalize_url_keeps_slug_prefixed(slug, location) ==
    LET is_relative == ~is_absolute(location)
        has_slug == Truthy(slug) /\ slug # Root
    IN  IF is_relative /\ has_slug THEN slug \o location ELSE location

canonicalize_url(slug, location) ==
    LET is_relative == ~is_absolute(location) /\ ~startswith(location, slug)
        has_slug == Truthy(slug) /\ slug # Root
    IN  IF is_relative /\ has_slug THEN slug \o location ELSE location

redirect_always_normalizes(slug, location, normalize) ==
    canonicalize_url(slug, location)

\* the Location the response carries
redirect(slug, location, normalize) ==
    IF normalize THEN canonicalize_url(slug, location) ELSE location

(***************************************************************************)
(* Specification SpecUrl: canonicalize_url and redirect on bounded inputs  *)
(***************************************************************************)
UrlChars == {"/", "p", "2", ":"}
Slugs == {<<>>, Root, SlugP, SlugPhysics}
Locations ==
    SeqsUpTo(UrlChars, MaxUrlLen) \cup
    {PathCourse, PathPreview, PathPhysics2X, AbsoluteLogin, RelativeLogin}

IdleUrl == [pc |-> "idle"]
IdleCls == [pc |-> "idle"]
IdleDresp == [pc |-> "idle"]
IdleStudents == [pc |-> "idle"]
IdleEnv == [pc |-> "idle"]
IdleResp == [pc |-> "idle"]

InitUrl ==
    /\ url \in [pc : {"start"}, slug : Slugs, location : Locations,
                op : {"none"}, normalize : {TRUE}, out : {<<>>}]
    /\ cls = IdleCls
    /\ dresp = IdleDresp
    /\ students = IdleStudents
    /\ env = IdleEnv
    /\ resp = IdleResp

CallCanonicalizeUrl ==
    /\ url.pc = "start"
    /\ url' = [url EXCEPT !.pc = "done", !.op = "canonicalize_url",
                          !.out = canonicalize_url(url.slug, url.location)]
    /\ UNCHANGED <<cls, dresp, students, env, resp>>

CallRedirect ==
    /\ url.pc = "start"
    /\ \E normalize \in BOOLEAN :
        url' = [url EXCEPT !.pc = "done", !.op = "redirect",
                           !.normalize = normalize,
                           !.out = redirect(url.slug, url.location, normalize)]
    /\ UNCHANGED <<cls, dresp, students, env, resp>>

NextUrl == CallCanonicalizeUrl \/ CallRedirect

SpecUrl == InitUrl /\ [][NextUrl]_vars

(***************************************************************************)
(* XSRF tokens. request.get('xsrf_token') is '' when the field is absent.  *)
(* XsrfTokenManager lives in common/crypto.py: a token is accepted only if *)
(* it was issued for the expected action name and has not expired.         *)
(***************************************************************************)
NoToken == [action |-> "", state |-> "missing"]
MalformedToken == [action |-> "", state |-> "malformed"]
TokensFor(actions) ==
    {NoToken, MalformedToken} \cup [action : actions, state : {"fresh", "expired"}]

create_xsrf_token(action) == [action |-> action, state |-> "fresh"]

is_xsrf_token_valid(token, action) ==
    token.state = "fresh" /\ token.action = action

\* Python truthiness of the token string
TruthyToken(token) == token.state # "missing"

(***************************************************************************)
(* ReflectiveRequestHandler                                                *)
(*   cls.attrs[<<m, a>>] is what getattr(self, '<m>_<a>') finds:           *)
(*   "bound" a method, "falsy" an attribute set to None, "missing" no      *)
(*   attribute at all (getattr without a default raises AttributeError).   *)
(***************************************************************************)
ActionNames == {"list", "save"}
RequestActions == ActionNames \cup {"", "other"}
AttrStates == {"bound", "falsy", "missing"}
NoHandler == <<>>

Outcome(status, invoked, raised, token_checked) ==
    [status |-> status, invoked |-> invoked, raised |-> raised,
     token_checked |-> token_checked]

get_without_default(c, action_param) ==
    LET action == action_param
    IN  IF action \notin c.get_actions
        THEN Outcome(404, NoHandler, None, FALSE)
        ELSE IF c.attrs[<<"get", action>>] = "missing"
        THEN Outcome(200, NoHandler, "AttributeError", FALSE)
        ELSE IF c.attrs[<<"get", action>>] = "falsy"
        THEN Outcome(404, NoHandler, None, FALSE)
        ELSE Outcome(200, <<"get", action>>, None, FALSE)

get(c, action_param) ==
    LET action == IF action_param = "" THEN c.default_action ELSE action_param
    IN  IF action \notin c.get_actions
        THEN Outcome(404, NoHandler, None, FALSE)
        ELSE IF c.attrs[<<"get", action>>] = "missing"
        THEN Outcome(200, NoHandler, "AttributeError", FALSE)
        ELSE IF c.attrs[<<"get", action>>] = "falsy"
        THEN Outcome(404, NoHandler, None, FALSE)
        ELSE Outcome(200, <<"get", action>>, None, FALSE)

post_substitutes_default(c, action_param, xsrf_token) ==
    LET action == IF action_param = "" THEN c.default_action ELSE action_param
    IN  IF action \notin c.post_actions
        THEN Outcome(404, NoHandler, None, FALSE)
        ELSE IF c.attrs[<<"post", action>>] = "missing"
        THEN Outcome(200, NoHandler, "AttributeError", FALSE)
        ELSE IF c.attrs[<<"post", action>>] = "falsy"
        THEN Outcome(404, NoHandler, None, FALSE)
        ELSE IF ~is_xsrf_token_valid(xsrf_token, action)
        THEN Outcome(403, NoHandler, None, TRUE)
        ELSE Outcome(200, <<"post", action>>, None, TRUE)

post_accepts_any_issued_token(c, action, xsrf_token) ==
    IF action = "" \/ action \notin c.post_actions
    THEN Outcome(404, NoHandler, None, FALSE)
    ELSE IF c.attrs[<<"post", action>>] = "missing"
    THEN Outcome(200, NoHandler, "AttributeError", FALSE)
    ELSE IF c.attrs[<<"post", action>>] = "falsy"
    THEN Outcome(404, NoHandler, None, FALSE)
    ELSE IF ~is_xsrf_token_valid(xsrf_token, xsrf_token.action)
    THEN Outcome(403, NoHandler, None, TRUE)
    ELSE Outcome(200, <<"post", action>>, None, TRUE)

post(c, action, xsrf_token) ==
    IF action = "" \/ action \notin c.post_actions
    THEN Outcome(404, NoHandler, None, FALSE)
    ELSE IF c.attrs[<<"post", action>>] = "missing"
    THEN Outcome(200, NoHandler, "AttributeError", FALSE)
    ELSE IF c.attrs[<<"post", action>>] = "falsy"
    THEN Outcome(404, NoHandler, None, FALSE)
    ELSE IF ~is_xsrf_token_valid(xsrf_token, action)
    THEN Outcome(403, NoHandler, None, TRUE)
    ELSE Outcome(200, <<"post", action>>, None, TRUE)

(***************************************************************************)
(* Specification SpecDispatch: requests to a ReflectiveRequestHandler      *)
(***************************************************************************)
Classes ==
    [default_action : ActionNames,
     get_actions : SUBSET ActionNames,
     post_actions : SUBSET ActionNames,
     attrs : [{"get", "post"} \X ActionNames -> AttrStates]]

InitDispatch ==
    /\ cls \in Classes
    /\ dresp = [pc |-> "start"]
    /\ url = IdleUrl
    /\ students = IdleStudents
    /\ env = IdleEnv
    /\ resp = IdleResp

ReflectiveGet ==
    /\ dresp.pc = "start"
    /\ \E action \in RequestActions :
        dresp' = [pc |-> "done", method |-> "GET", action |-> action,
                  xsrf_token |-> NoToken, out |-> get(cls, action)]
    /\ UNCHANGED <<url, cls, students, env, resp>>

ReflectivePost ==
    /\ dresp.pc = "start"
    /\ \E action \in RequestActions, xsrf_token \in TokensFor(ActionNames) :
        dresp' = [pc |-> "done", method |-> "POST", action |-> action,
                  xsrf_token |-> xsrf_token,
                  out |-> post(cls, action, xsrf_token)]
    /\ UNCHANGED <<url, cls, students, env, resp>>

\* the response is sent; the next request gets a new handler instance
DispatchRespond ==
    /\ dresp.pc = "done"
    /\ dresp' = [pc |-> "start"]
    /\ UNCHANGED <<url, cls, students, env, resp>>

NextDispatch == ReflectiveGet \/ ReflectivePost \/ DispatchRespond

SpecDispatch == InitDispatch /\ [][NextDispatch]_vars

(***************************************************************************)
(* Students. models.Student lives in models/models.py: a persisted record  *)
(* keyed by email; student.labels is a text of label ids. An identity      *)
(* stands for its own email() and user_id().                               *)
(***************************************************************************)
Users == {"u1"}
MaybeUsers == Users \cup {None}
Names == {"n1", "n2"}
LabelIds == 1..MaxLabelId
TRANSIENT_STUDENT == "TRANSIENT_STUDENT"

RECURSIVE SortedSeq(_)
SortedSeq(S) ==
    IF S = {} THEN <<>>
    ELSE LET m == CHOOSE x \in S : \A y \in S : x <= y
         IN  <<m>> \o SortedSeq(S \ {m})

SeqToSet(q) == {q[i] : i \in 1..Len(q)}

\* str(n) and int(s) for non-negative decimal numbers
DigitChars == <<"0", "1", "2", "3", "4", "5", "6", "7", "8", "9">>

RECURSIVE str(_)
str(n) ==
    IF n < 10 THEN <<DigitChars[n + 1]>>
    ELSE str(n \div 10) \o <<DigitChars[(n % 10) + 1]>>

RECURSIVE int(_)
int(s) ==
    IF Len(s) = 0 THEN 0
    ELSE 10 * int(SubSeq(s, 1, Len(s) - 1)) +
         ((CHOOSE d \in 1..10 : DigitChars[d] = s[Len(s)]) - 1)

\* common_utils.text_to_list: the whitespace-separated items of a text
RECURSIVE text_to_list(_)
text_to_list(text) ==
    LET i == Find(text, " ")
    IN  IF text = <<>> THEN <<>>
        ELSE IF i = 0 THEN <<text>>
        ELSE IF i = 1 THEN text_to_list(SubSeq(text, 2, Len(text)))
        ELSE <<SubSeq(text, 1, i - 1)>> \o
             text_to_list(SubSeq(text, i + 1, Len(text)))

\* common_utils.list_to_text: the items' str() joined by single spaces
RECURSIVE list_to_text(_)
list_to_text(items) ==
    IF items = <<>> THEN <<>>
    ELSE IF Len(items) = 1 THEN str(items[1])
    ELSE str(items[1]) \o <<" ">> \o list_to_text(Tail(items))

\* list(a set of ints): CPython iterates a set of small ints in ascending order
list(S) == SortedSeq(S)

LabelTexts == {list_to_text(list(S)) : S \in SUBSET LabelIds}

NoRecord ==
    [exists |-> FALSE, is_enrolled |-> FALSE, user_id |-> None,
     name |-> "n1", labels |-> <<>>]
StudentRecords ==
    {NoRecord} \cup
    [exists : {TRUE}, is_enrolled : BOOLEAN, user_id : MaybeUsers,
     name : Names, labels : LabelTexts]

is_transient(student) == student = TRANSIENT_STUDENT

get_enrolled_student_by_email(store, email) ==
    IF store[email].exists /\ store[email].is_enrolled THEN email ELSE None

student_user_id(store, student) ==
    IF student \in DOMAIN store THEN store[student].user_id ELSE None

put_user_id(store, student, user_id) ==
    IF student \in DOMAIN store
    THEN [store EXCEPT ![student].user_id = user_id]
    ELSE store

add_new_student_for_current_user(store, user, name) ==
    [store EXCEPT ![user] =
        [exists |-> TRUE, is_enrolled |-> TRUE, user_id |-> user,
         name |-> name, labels |-> store[user].labels]]

rename_current(store, user, name) ==
    IF user \in DOMAIN store
    THEN [store EXCEPT ![user].name = name]
    ELSE store

set_labels_for_current(store, user, labels) ==
    IF user \in DOMAIN store
    THEN [store EXCEPT ![user].labels = labels]
    ELSE store

set_enrollment_status_for_current(store, user, is_enrolled) ==
    IF user \in DOMAIN store
    THEN [store EXCEPT ![user].is_enrolled = is_enrolled]
    ELSE store

Write(op, student) == [op |-> op, student |-> student]

(***************************************************************************)
(* BaseHandler                                                             *)
(***************************************************************************)
NoLocation == <<>>
NoTemplate == "no template"

\* the user, and template_value['transient_student']
personalize_page_and_get_user(user) ==
    [user |-> user, transient_student |-> (user = None)]

Enrolled(student, location, store, writes, transient_student) ==
    [student |-> student, location |-> location, store |-> store,
     writes |-> writes, transient_student |-> transient_student]

get_enrolled_always_backfills(store, e, current_user, supports_transient_student) ==
    LET user == personalize_page_and_get_user(current_user).user
        found == IF user = None THEN None
                 ELSE get_enrolled_student_by_email(store, user)
        student == IF found = None THEN TRANSIENT_STUDENT ELSE found
    IN  IF is_transient(student)
        THEN IF supports_transient_student /\ e.browsable
             THEN Enrolled(TRANSIENT_STUDENT, NoLocation, store, <<>>, TRUE)
             ELSE IF user = None
             THEN Enrolled(None, redirect(e.slug, e.login_url, FALSE),
                           store, <<>>, TRUE)
             ELSE Enrolled(None, redirect(e.slug, PathPreview, TRUE),
                           store, <<>>, TRUE)
        ELSE Enrolled(student, NoLocation, put_user_id(store, student, user),
                      <<Write("put_user_id", student)>>, FALSE)

get_enrolled_returns_transient_to_all(store, e, current_user, supports_transient_student) ==
    LET user == personalize_page_and_get_user(current_user).user
        found == IF user = None THEN None
                 ELSE get_enrolled_student_by_email(store, user)
        student == IF found = None THEN TRANSIENT_STUDENT ELSE found
    IN  IF is_transient(student)
        THEN Enrolled(TRANSIENT_STUDENT, NoLocation, store, <<>>, TRUE)
        ELSE IF student_user_id(store, student) = None
        THEN Enrolled(student, NoLocation, put_user_id(store, student, user),
                      <<Write("put_user_id", student)>>, FALSE)
        ELSE Enrolled(student, NoLocation, store, <<>>, FALSE)

get_enrolled_sends_unenrolled_to_login(store, e, current_user, supports_transient_student) ==
    LET user == personalize_page_and_get_user(current_user).user
        found == IF user = None THEN None
                 ELSE get_enrolled_student_by_email(store, user)
        student == IF found = None THEN TRANSIENT_STUDENT ELSE found
    IN  IF is_transient(student)
        THEN IF supports_transient_student /\ e.browsable
             THEN Enrolled(TRANSIENT_STUDENT, NoLocation, store, <<>>, TRUE)
             ELSE Enrolled(None, redirect(e.slug, e.login_url, FALSE),
                           store, <<>>, TRUE)
        ELSE IF student_user_id(store, student) = None
        THEN Enrolled(student, NoLocation, put_user_id(store, student, user),
                      <<Write("put_user_id", student)>>, FALSE)
        ELSE Enrolled(student, NoLocation, store, <<>>, FALSE)

personalize_page_and_get_enrolled(store, e, current_user, supports_transient_student) ==
    LET user == personalize_page_and_get_user(current_user).user
        found == IF user = None THEN None
                 ELSE get_enrolled_student_by_email(store, user)
        student == IF found = None THEN TRANSIENT_STUDENT ELSE found
    IN  IF is_transient(student)
        THEN IF supports_transient_student /\ e.browsable
             THEN Enrolled(TRANSIENT_STUDENT, NoLocation, store, <<>>, TRUE)
             ELSE IF user = None
             THEN Enrolled(None, redirect(e.slug, e.login_url, FALSE),
                           store, <<>>, TRUE)
             ELSE Enrolled(None, redirect(e.slug, PathPreview, TRUE),
                           store, <<>>, TRUE)
        ELSE IF student_user_id(store, student) = None
        THEN Enrolled(student, NoLocation, put_user_id(store, student, user),
                      <<Write("put_user_id", student)>>, FALSE)
        ELSE Enrolled(student, NoLocation, store, <<>>, FALSE)

assert_xsrf_token_always_passes(token, action) == TRUE

\* BaseHandler.assert_xsrf_token_or_fail: FALSE comes with self.error(403)
assert_xsrf_token_or_fail(token, action) ==
    ~(~TruthyToken(token) \/ ~is_xsrf_token_valid(token, action))

(***************************************************************************)
(* BaseRESTHandler. transforms.send_json_response writes a JSON body that  *)
(* carries the status, the message and the payload it is given.            *)
(***************************************************************************)
NoJson == [status |-> 0, message |-> "", payload |-> None]
BadXsrfMessage == "Bad XSRF token. Please reload the page and try again"

send_json_response(status, message, payload_dict) ==
    [status |-> status, message |-> message, payload |-> payload_dict]

rest_assert_reports_validation_error(token, action, args_dict) ==
    IF ~TruthyToken(token) \/ ~is_xsrf_token_valid(token, action)
    THEN [returned |-> FALSE,
          json |-> send_json_response(412, BadXsrfMessage, args_dict)]
    ELSE [returned |-> TRUE, json |-> NoJson]

\* BaseRESTHandler.assert_xsrf_token_or_fail
rest_assert_xsrf_token_or_fail(token, action, args_dict) ==
    IF ~TruthyToken(token) \/ ~is_xsrf_token_valid(token, action)
    THEN [returned |-> FALSE,
          json |-> send_json_response(403, BadXsrfMessage, args_dict)]
    ELSE [returned |-> TRUE, json |-> NoJson]

\* BaseRESTHandler.validation_error: key None stands for no key
validation_error(message, key) ==
    IF key # None
    THEN send_json_response(412, message, key)
    ELSE send_json_response(412, message, None)

(***************************************************************************)
(* Specification Spec: requests to the page handlers, one action per       *)
(* handler method, each the whole request. A handler instance serves one   *)
(* request; Respond ends it.                                               *)
(***************************************************************************)
PageTokenActions == {"register-post", "student-edit", "student-unenroll"}
PageTokens == TokensFor(PageTokenActions)
LoginUrls == {AbsoluteLogin, RelativeLogin}
Envs ==
    [browsable : BOOLEAN, can_register : BOOLEAN, slug : {Root, SlugPhysics},
     login_url : LoginUrls, track_labels : SUBSET LabelIds]

Init ==
    /\ students \in [Users -> StudentRecords]
    /\ env \in Envs
    /\ resp = [pc |-> "start"]
    /\ url = IdleUrl
    /\ cls = IdleCls
    /\ dresp = IdleDresp

\* a response before the handler has done anything
Response(handler, method, user, xsrf_token) ==
    [pc |-> "done", handler |-> handler, method |-> method, user |-> user,
     xsrf_token |-> xsrf_token, resolver |-> "none",
     supports_transient_student |-> FALSE, student |-> None,
     status |-> 200, location |-> NoLocation, rendered |-> NoTemplate,
     writes |-> <<>>, transient_student |-> FALSE, labels |-> {}]

Redirected(r, location) == [r EXCEPT !.status = 302, !.location = location]

\* the response once personalize_page_and_get_enrolled has returned e
Resolved(r, supports_transient_student, e) ==
    [r EXCEPT !.resolver = "get_enrolled",
              !.supports_transient_student = supports_transient_student,
              !.student = e.student,
              !.status = IF e.location # NoLocation THEN 302 ELSE 200,
              !.location = e.location,
              !.writes = e.writes,
              !.transient_student = e.transient_student]

RegisterGet ==
    /\ resp.pc = "start"
    /\ \E current_user \in MaybeUsers :
       \E u \in {personalize_page_and_get_user(current_user)} :
       \E r \in {[Response("RegisterHandler", "GET", current_user, NoToken)
                    EXCEPT !.resolver = "get_user",
                           !.transient_student = u.transient_student]} :
          resp' =
            IF u.user = None
            THEN Redirected(r, redirect(env.slug, env.login_url, FALSE))
            ELSE IF get_enrolled_student_by_email(students, u.user) # None
            THEN Redirected(r, redirect(env.slug, PathCourse, TRUE))
            ELSE IF ~env.can_register
            THEN Redirected(r, redirect(env.slug,
                    Fragment(PathCourse, RegistrationClosed), TRUE))
            ELSE [r EXCEPT !.rendered = "register.html",
                           !.transient_student = TRUE]
    /\ UNCHANGED <<students, env, url, cls, dresp>>

RegisterPost_checks_registration_before_token ==
    /\ resp.pc = "start"
    /\ \E current_user \in MaybeUsers, xsrf_token \in PageTokens, name \in Names :
       \E u \in {personalize_page_and_get_user(current_user)} :
       \E r \in {[Response("RegisterHandler", "POST", current_user, xsrf_token)
                    EXCEPT !.resolver = "get_user",
                           !.transient_student = u.transient_student]} :
          IF u.user = None
          THEN /\ resp' = Redirected(r, redirect(env.slug, env.login_url, FALSE))
               /\ students' = students
          ELSE IF ~env.can_register
          THEN /\ resp' = Redirected(r, redirect(env.slug,
                      Fragment(PathCourse, RegistrationClosed), TRUE))
               /\ students' = students
          ELSE IF ~assert_xsrf_token_or_fail(xsrf_token, "register-post")
          THEN /\ resp' = [r EXCEPT !.status = 403]
               /\ students' = students
          ELSE /\ students' =
                      add_new_student_for_current_user(students, u.user, name)
               /\ resp' = [Redirected(r, redirect(env.slug,
                              Fragment(PathCourse, RegistrationConfirmation), TRUE))
                             EXCEPT !.writes = <<Write("add_new_student", u.user)>>]
    /\ UNCHANGED <<env, url, cls, dresp>>

RegisterPost ==
    /\ resp.pc = "start"
    /\ \E current_user \in MaybeUsers, xsrf_token \in PageTokens, name \in Names :
       \E u \in {personalize_page_and_get_user(current_user)} :
       \E r \in {[Response("RegisterHandler", "POST", current_user, xsrf_token)
                    EXCEPT !.resolver = "get_user",
                           !.transient_student = u.transient_student]} :
          IF u.user = None
          THEN /\ resp' = Redirected(r, redirect(env.slug, env.login_url, FALSE))
               /\ students' = students
          ELSE IF ~assert_xsrf_token_or_fail(xsrf_token, "register-post")
          THEN /\ resp' = [r EXCEPT !.status = 403]
               /\ students' = students
          ELSE IF ~env.can_register
          THEN /\ resp' = Redirected(r, redirect(env.slug,
                      Fragment(PathCourse, RegistrationClosed), TRUE))
               /\ students' = students
          ELSE /\ students' =
                      add_new_student_for_current_user(students, u.user, name)
               /\ resp' = [Redirected(r, redirect(env.slug,
                              Fragment(PathCourse, RegistrationConfirmation), TRUE))
                             EXCEPT !.writes = <<Write("add_new_student", u.user)>>]
    /\ UNCHANGED <<env, url, cls, dresp>>

ForumGet ==
    /\ resp.pc = "start"
    /\ \E current_user \in MaybeUsers :
       \E e \in {personalize_page_and_get_enrolled(students, env, current_user, TRUE)} :
       \E r \in {Resolved(Response("ForumHandler", "GET", current_user, NoToken),
                          TRUE, e)} :
          /\ students' = e.store
          /\ resp' = IF e.student = None THEN r
                     ELSE [r EXCEPT !.rendered = "forum.html"]
    /\ UNCHANGED <<env, url, cls, dresp>>

StudentProfileGet ==
    /\ resp.pc = "start"
    /\ \E current_user \in MaybeUsers :
       \E e \in {personalize_page_and_get_enrolled(students, env, current_user, FALSE)} :
       \E r \in {Resolved(Response("StudentProfileHandler", "GET", current_user,
                                   NoToken), FALSE, e)} :
          /\ students' = e.store
          /\ resp' = IF e.student = None THEN r
                     ELSE [r EXCEPT !.rendered = "student_profile.html"]
    /\ UNCHANGED <<env, url, cls, dresp>>

StudentEditStudentPost ==
    /\ resp.pc = "start"
    /\ \E current_user \in MaybeUsers, xsrf_token \in PageTokens, name \in Names :
       \E e \in {personalize_page_and_get_enrolled(students, env, current_user, FALSE)} :
       \E r \in {Resolved(Response("StudentEditStudentHandler", "POST",
                                   current_user, xsrf_token), FALSE, e)} :
          IF e.student = None
          THEN /\ students' = e.store
               /\ resp' = r
          ELSE IF ~assert_xsrf_token_or_fail(xsrf_token, "student-edit")
          THEN /\ students' = e.store
               /\ resp' = [r EXCEPT !.status = 403]
          ELSE /\ students' = rename_current(e.store, current_user, name)
               /\ resp' = [Redirected(r, redirect(env.slug, PathStudentHome, TRUE))
                             EXCEPT !.writes = Append(e.writes,
                                                 Write("rename", e.student))]
    /\ UNCHANGED <<env, url, cls, dresp>>

\* student.labels of the student object the handler holds
labels_of(store, student) ==
    IF student \in DOMAIN store THEN store[student].labels ELSE <<>>

new_student_labels_merges_all_submitted(all_track_labels, submitted, labels_text) ==
    LET new_track_labels ==
            {int(label_id) : label_id \in {l \in submitted : Truthy(l)}}
        student_labels ==
            {int(label_id) : label_id \in
                {l \in SeqToSet(text_to_list(labels_text)) : Truthy(l)}}
    IN  list_to_text(list((student_labels \ all_track_labels)
                          \cup new_track_labels))

\* the labels text StudentSetTracksHandler.post stores for the student
new_student_labels(all_track_labels, submitted, labels_text) ==
    LET new_track_labels ==
            {int(label_id) : label_id \in
                {l \in submitted : Truthy(l) /\ int(l) \in all_track_labels}}
        student_labels ==
            {int(label_id) : label_id \in
                {l \in SeqToSet(text_to_list(labels_text)) : Truthy(l)}}
    IN  list_to_text(list((student_labels \ all_track_labels)
                          \cup new_track_labels))

StudentSetTracksPost ==
    /\ resp.pc = "start"
    /\ \E current_user \in MaybeUsers, xsrf_token \in PageTokens,
          labels \in SUBSET LabelIds :
       \E e \in {personalize_page_and_get_enrolled(students, env, current_user, FALSE)} :
       \E r \in {[Resolved(Response("StudentSetTracksHandler", "POST",
                                    current_user, xsrf_token), FALSE, e)
                    EXCEPT !.labels = labels]} :
          IF e.student = None
          THEN /\ students' = e.store
               /\ resp' = r
          ELSE IF ~assert_xsrf_token_or_fail(xsrf_token, "student-edit")
          THEN /\ students' = e.store
               /\ resp' = [r EXCEPT !.status = 403]
          ELSE /\ students' =
                      set_labels_for_current(e.store, current_user,
                          new_student_labels(env.track_labels,
                              {str(l) : l \in labels},
                              labels_of(e.store, e.student)))
               /\ resp' = [Redirected(r, redirect(env.slug, PathStudentHome, TRUE))
                             EXCEPT !.writes = Append(e.writes,
                                                 Write("set_labels", e.student))]
    /\ UNCHANGED <<env, url, cls, dresp>>

StudentUnenrollGet ==
    /\ resp.pc = "start"
    /\ \E current_user \in MaybeUsers :
       \E e \in {personalize_page_and_get_enrolled(students, env, current_user, FALSE)} :
       \E r \in {Resolved(Response("StudentUnenrollHandler", "GET", current_user,
                                   NoToken), FALSE, e)} :
          /\ students' = e.store
          /\ resp' = IF e.student = None THEN r
                     ELSE [r EXCEPT !.rendered = "unenroll_confirmation_check.html"]
    /\ UNCHANGED <<env, url, cls, dresp>>

\* (the source listing ends after the handler has set its template values)
StudentUnenrollPost ==
    /\ resp.pc = "start"
    /\ \E current_user \in MaybeUsers, xsrf_token \in PageTokens :
       \E e \in {personalize_page_and_get_enrolled(students, env, current_user, FALSE)} :
       \E r \in {Resolved(Response("StudentUnenrollHandler", "POST",
                                   current_user, xsrf_token), FALSE, e)} :
          IF e.student = None
          THEN /\ students' = e.store
               /\ resp' = r
          ELSE IF ~assert_xsrf_token_or_fail(xsrf_token, "student-unenroll")
          THEN /\ students' = e.store
               /\ resp' = [r EXCEPT !.status = 403]
          ELSE /\ students' =
                      set_enrollment_status_for_current(e.store, current_user, FALSE)
               /\ resp' = [r EXCEPT !.transient_student = TRUE,
                                    !.writes = Append(e.writes,
                                        Write("set_enrollment_status", e.student))]
    /\ UNCHANGED <<env, url, cls, dresp>>

\* a REST handler calls BaseRESTHandler.assert_xsrf_token_or_fail
RestKeys == {None, "key1"}
RestMessages == {"invalid"}

RestAssertXsrfToken ==
    /\ resp.pc = "start"
    /\ \E xsrf_token \in PageTokens, action \in PageTokenActions,
          args_dict \in RestKeys :
       \E a \in {rest_assert_xsrf_token_or_fail(xsrf_token, action, args_dict)} :
          resp' = Response("BaseRESTHandler", "call", None, xsrf_token) @@
                  [op |-> "assert_xsrf_token_or_fail", action |-> action,
                   args |-> args_dict, returned |-> a.returned, json |-> a.json]
    /\ UNCHANGED <<students, env, url, cls, dresp>>

\* a REST handler calls BaseRESTHandler.validation_error
RestValidationError ==
    /\ resp.pc = "start"
    /\ \E message \in RestMessages, key \in RestKeys :
          resp' = Response("BaseRESTHandler", "call", None, NoToken) @@
                  [op |-> "validation_error", action |-> message,
                   args |-> key, returned |-> FALSE,
                   json |-> validation_error(message, key)]
    /\ UNCHANGED <<students, env, url, cls, dresp>>

\* the response is sent; the next request gets a new handler instance
Respond ==
    /\ resp.pc = "done"
    /\ resp' = [pc |-> "start"]
    /\ UNCHANGED <<students, env, url, cls, dresp>>

Next ==
    \/ RegisterGet
    \/ RegisterPost
    \/ ForumGet
    \/ StudentProfileGet
    \/ StudentEditStudentPost
    \/ StudentSetTracksPost
    \/ StudentUnenrollGet
    \/ StudentUnenrollPost
    \/ RestAssertXsrfToken
    \/ RestValidationError
    \/ Respond

Spec == Init /\ [][Next]_vars

(***************************************************************************)
(* What the claims about page handlers speak of                            *)
(***************************************************************************)
\* the action name each POST handler passes to assert_xsrf_token_or_fail
TokenActionOf(handler) ==
    CASE handler = "RegisterHandler" -> "register-post"
      [] handler = "StudentEditStudentHandler" -> "student-edit"
      [] handler = "StudentSetTracksHandler" -> "student-edit"
      [] handler = "StudentUnenrollHandler" -> "student-unenroll"
      [] OTHER -> "no action"

CarriesValidToken(r) ==
    /\ r.xsrf_token.state = "fresh"
    /\ r.xsrf_token.action = TokenActionOf(r.handler)

WritesOf(r) == {r.writes[i] : i \in 1..Len(r.writes)}

Mutations == {"rename", "set_labels", "set_enrollment_status"}

\* a request is served in this step
Served == resp.pc = "start" /\ resp'.pc = "done"

\* the records differ at most in user_id
SameButUserId(old, new) == new = [old EXCEPT !.user_id = new.user_id]

(***************************************************************************)
(* C1 as stated: in a POST to RegisterHandler, StudentEditStudentHandler,  *)
(* StudentSetTracksHandler or StudentUnenrollHandler no write to the       *)
(* student store (creation, rename, labels, enrollment or the user_id      *)
(* backfill put) happens unless the xsrf_token is valid for the handler's  *)
(* action.                                                                 *)
(***************************************************************************)
C1_NoWriteWithoutToken ==
    (/\ resp.pc = "done"
     /\ resp.method = "POST"
     /\ ~CarriesValidToken(resp)) => resp.writes = <<>>

(***************************************************************************)
(* C1 amended: in such a POST without a valid token nothing is written     *)
(* but the legacy user_id backfill, which                                  *)
(* personalize_page_and_get_enrolled performs before the token is checked: *)
(* no student is created, renamed, relabelled or unenrolled.               *)
(***************************************************************************)
C1_NoMutationWithoutToken ==
    [][(/\ Served
        /\ resp'.method = "POST"
        /\ ~CarriesValidToken(resp')) =>
            /\ \A w \in WritesOf(resp') : w.op = "put_user_id"
            /\ \A u \in Users : SameButUserId(students[u], students'[u])
            /\ resp'.status # 200
      ]_vars

C1_Witness ==
    /\ resp.pc = "done"
    /\ resp.handler = "StudentEditStudentHandler"
    /\ resp.method = "POST"
    /\ resp.user \in Users
    /\ resp.xsrf_token = create_xsrf_token("student-unenroll")
    /\ resp.status = 403
    /\ resp.writes = <<Write("put_user_id", resp.user)>>
    /\ students[resp.user].user_id = resp.user

(***************************************************************************)
(* C6: the transient student is never written: the user_id backfill put is *)
(* reached only with an identity and its real enrolled record, and rename, *)
(* set-labels and set-enrollment-status are reached only after             *)
(* personalize_page_and_get_enrolled returned a non-transient student.     *)
(***************************************************************************)
C6_TransientNeverWritten ==
    [][Served =>
        \A w \in WritesOf(resp') :
            /\ w.student # TRANSIENT_STUDENT
            /\ w.student \in Users
            /\ resp'.user = w.student
            /\ w.op \in Mutations \cup {"put_user_id"} =>
                /\ resp'.resolver = "get_enrolled"
                /\ resp'.student = w.student
                /\ students[w.student].exists
                /\ students[w.student].is_enrolled
            /\ w.op = "put_user_id" => students[w.student].user_id = None
      ]_vars

C6_Witness ==
    /\ resp.pc = "done"
    /\ resp.handler = "StudentSetTracksHandler"
    /\ resp.user \in Users
    /\ resp.student = resp.user
    /\ resp.writes = <<Write("put_user_id", resp.user),
                       Write("set_labels", resp.user)>>

(***************************************************************************)
(* C7: with no identity, personalize_page_and_get_enrolled without         *)
(* transient support redirects to the login URL as it is (not              *)
(* slug-prefixed) and returns no student; with transient support on a      *)
(* browsable course it returns the transient student and does not          *)
(* redirect; with transient support on a course that is not browsable it   *)
(* redirects to login and returns no student.                              *)
(***************************************************************************)
C7_AnonymousIsSentToLogin ==
    (/\ resp.pc = "done"
     /\ resp.resolver = "get_enrolled"
     /\ resp.user = None) =>
        IF resp.supports_transient_student /\ env.browsable
        THEN /\ resp.student = TRANSIENT_STUDENT
             /\ resp.status = 200
             /\ resp.location = NoLocation
        ELSE /\ resp.student = None
             /\ resp.status = 302
             /\ resp.location = env.login_url
             /\ resp.rendered = NoTemplate

C7_Witness ==
    /\ resp.pc = "done"
    /\ resp.handler = "StudentProfileHandler"
    /\ resp.user = None
    /\ ~resp.supports_transient_student
    /\ env.slug = SlugPhysics
    /\ env.login_url = RelativeLogin
    /\ resp.status = 302
    /\ resp.location = RelativeLogin
    /\ resp.student = None

(***************************************************************************)
(* C8: with an identity that has no enrolled student record,               *)
(* personalize_page_and_get_enrolled without transient support redirects   *)
(* to /preview (not to login) and returns no student, and the handler that *)
(* called it ends the request: nothing is rendered and no student record   *)
(* is changed.                                                             *)
(***************************************************************************)
C8_UnenrolledIsSentToPreview ==
    [][(/\ Served
        /\ resp'.resolver = "get_enrolled"
        /\ resp'.user \in Users
        /\ ~(students[resp'.user].exists /\ students[resp'.user].is_enrolled)
        /\ ~resp'.supports_transient_student) =>
            /\ resp'.student = None
            /\ resp'.status = 302
            /\ resp'.location =
                  IF env.slug = Root THEN PathPreview ELSE env.slug \o PathPreview
            /\ resp'.location # env.login_url
            /\ resp'.rendered = NoTemplate
            /\ resp'.writes = <<>>
            /\ students' = students
      ]_vars

C8_Witness ==
    /\ resp.pc = "done"
    /\ resp.handler = "StudentEditStudentHandler"
    /\ resp.user \in Users
    /\ ~students[resp.user].is_enrolled
    /\ resp.xsrf_token = create_xsrf_token("student-edit")
    /\ env.slug = SlugPhysics
    /\ resp.status = 302
    /\ resp.location = SlugPhysics \o PathPreview
    /\ resp.student = None
    /\ resp.writes = <<>>

(***************************************************************************)
(* C11 as stated: a missing or invalid token gives status 403 in a page    *)
(* handler and a structured 412 JSON payload in a REST handler; in both    *)
(* the assertion returns false and the caller does nothing more.           *)
(***************************************************************************)
\* a POST page handler got as far as its token check
ReachedTokenCheck(r) ==
    /\ r.method = "POST"
    /\ \/ r.resolver = "get_user" /\ r.user \in Users
       \/ r.resolver = "get_enrolled" /\ r.student \in Users

RestAsserted(r) ==
    r.handler = "BaseRESTHandler" /\ r.op = "assert_xsrf_token_or_fail"

TokenValidFor(token, action) == token.state = "fresh" /\ token.action = action

PageTokenFailureIs403 ==
    (/\ resp.pc = "done"
     /\ ReachedTokenCheck(resp)
     /\ ~CarriesValidToken(resp)) =>
        /\ resp.status = 403
        /\ resp.location = NoLocation
        /\ resp.rendered = NoTemplate
        /\ \A w \in WritesOf(resp) : w.op = "put_user_id"

C11_RestTokenFailureIs412 ==
    /\ PageTokenFailureIs403
    /\ (/\ resp.pc = "done"
        /\ RestAsserted(resp)
        /\ ~TokenValidFor(resp.xsrf_token, resp.action)) =>
            /\ ~resp.returned
            /\ resp.json.status = 412

(***************************************************************************)
(* C11 amended: a missing or invalid token gives status 403 in a page      *)
(* handler and a JSON payload with status 403, the bad-token message and   *)
(* the caller's args in a REST handler (412 is the status of               *)
(* validation_error); in both the assertion returns false and the page     *)
(* handler does nothing more. A valid token passes and sends nothing.      *)
(***************************************************************************)
C11_TokenFailureIs403 ==
    /\ PageTokenFailureIs403
    /\ (resp.pc = "done" /\ RestAsserted(resp)) =>
            IF TokenValidFor(resp.xsrf_token, resp.action)
            THEN resp.returned /\ resp.json = NoJson
            ELSE /\ ~resp.returned
                 /\ resp.json.status = 403
                 /\ resp.json.message = BadXsrfMessage
                 /\ resp.json.payload = resp.args
    /\ (/\ resp.pc = "done"
        /\ resp.handler = "BaseRESTHandler"
        /\ resp.op = "validation_error") =>
            /\ resp.json.status = 412
            /\ resp.json.payload = resp.args

C11_Witness ==
    /\ resp.pc = "done"
    /\ RestAsserted(resp)
    /\ resp.xsrf_token = create_xsrf_token("student-edit")
    /\ resp.action = "student-unenroll"
    /\ resp.args = "key1"
    /\ ~resp.returned
    /\ resp.json = [status |-> 403, message |-> BadXsrfMessage, payload |-> "key1"]

(***************************************************************************)
(* C12: after a successful StudentSetTracksHandler.post with submitted     *)
(* label ids S, for a student with labels L and track-label ids T, the     *)
(* stored labels are exactly (L \ T) union (S intersect T): non-track      *)
(* labels are kept, track labels not re-submitted are removed, submitted   *)
(* ids that are not track labels are ignored.                              *)
(***************************************************************************)
\* the label ids a stored labels text lists
StoredLabels(text) ==
    {i \in LabelIds : \E k \in 1..Len(text_to_list(text)) :
                            text_to_list(text)[k] = str(i)}

\* every item of the text is a label id, listed once
WellFormedLabels(text) ==
    Len(text_to_list(text)) = Cardinality(StoredLabels(text))

SetTracksSucceeded(r) ==
    /\ r.handler = "StudentSetTracksHandler"
    /\ r.method = "POST"
    /\ r.student \in Users
    /\ r.status = 302

C12_SetTracksReplacesTrackLabels ==
    [][(Served /\ SetTracksSucceeded(resp')) =>
        LET u == resp'.student
            L == StoredLabels(students[u].labels)
            T == env.track_labels
            S == resp'.labels
        IN  /\ StoredLabels(students'[u].labels) = (L \ T) \cup (S \cap T)
            /\ WellFormedLabels(students'[u].labels)
            /\ StoredLabels(students'[u].labels) \ T = L \ T
            /\ StoredLabels(students'[u].labels) \cap T = S \cap T
            /\ students'[u].name = students[u].name
            /\ students'[u].is_enrolled
            /\ resp'.location =
                  IF env.slug = Root THEN PathStudentHome
                  ELSE env.slug \o PathStudentHome
      ]_vars

\* track label 1 was kept out of L or dropped, submitted non-track 2 ignored
C12_Witness ==
    /\ resp.pc = "done"
    /\ SetTracksSucceeded(resp)
    /\ env.track_labels = {1}
    /\ resp.labels = {2}
    /\ students[resp.student].labels = <<>>

(***************************************************************************)
(* C13: the legacy user_id backfill is a one-time repair: when             *)
(* personalize_page_and_get_enrolled resolves an enrolled student without  *)
(* user_id it sets user_id to the identity's id and puts the record once;  *)
(* a student that has a user_id keeps it, so every later request of the    *)
(* identity finds it set and personalize_page_and_get_enrolled writes      *)
(* nothing.                                                                *)
(***************************************************************************)
Backfills(r) == {i \in 1..Len(r.writes) : r.writes[i].op = "put_user_id"}

C13_BackfillIsOneTime ==
    [][/\ (/\ Served
           /\ resp'.resolver = "get_enrolled"
           /\ resp'.user \in Users) =>
              LET u == resp'.user
                  enrolled == students[u].exists /\ students[u].is_enrolled
              IN  IF enrolled /\ students[u].user_id = None
                  THEN /\ Cardinality(Backfills(resp')) = 1
                       /\ resp'.writes[1] = Write("put_user_id", u)
                       /\ students'[u].user_id = u
                  ELSE Backfills(resp') = {}
       /\ \A u \in Users :
              students[u].user_id # None =>
                  students'[u].user_id = students[u].user_id
      ]_vars

C13_Witness ==
    /\ resp.pc = "done"
    /\ resp.handler = "StudentProfileHandler"
    /\ resp.user \in Users
    /\ resp.student = resp.user
    /\ resp.writes = <<Write("put_user_id", resp.user)>>
    /\ students[resp.user].user_id = resp.user
    /\ resp.rendered = "student_profile.html"

(***************************************************************************)
(* C14: enrollment lifecycle of an identity. RegisterHandler.post creates  *)
(* the student record only with an identity, a token valid for             *)
(* 'register-post' and open registration, tested in that order (login      *)
(* redirect, then 403, then the registration-closed redirect); once        *)
(* enrolled, RegisterHandler.get redirects to /course instead of rendering *)
(* the form; after a successful StudentUnenrollHandler.post the identity   *)
(* is not enrolled, stays so until it registers again, and meanwhile       *)
(* personalize_page_and_get_enrolled without transient support redirects   *)
(* it to /preview.                                                         *)
(***************************************************************************)
SlugPrefixed(path) == IF env.slug = Root THEN path ELSE env.slug \o path

IsEnrolled(store, u) == store[u].exists /\ store[u].is_enrolled

Registered(r, u) ==
    /\ r.handler = "RegisterHandler"
    /\ r.method = "POST"
    /\ r.user = u
    /\ CarriesValidToken(r)
    /\ r.writes = <<Write("add_new_student", u)>>

C14_EnrollmentLifecycle ==
    [][/\ (Served /\ resp'.handler = "RegisterHandler" /\ resp'.method = "POST") =>
              IF resp'.user = None
              THEN /\ resp'.status = 302
                   /\ resp'.location = env.login_url
                   /\ students' = students
              ELSE IF ~CarriesValidToken(resp')
              THEN /\ resp'.status = 403
                   /\ resp'.location = NoLocation
                   /\ students' = students
              ELSE IF ~env.can_register
              THEN /\ resp'.status = 302
                   /\ resp'.location =
                         SlugPrefixed(Fragment(PathCourse, RegistrationClosed))
                   /\ students' = students
              ELSE /\ Registered(resp', resp'.user)
                   /\ IsEnrolled(students', resp'.user)
                   /\ students'[resp'.user].user_id = resp'.user
                   /\ resp'.location =
                         SlugPrefixed(Fragment(PathCourse, RegistrationConfirmation))
       /\ \A u \in Users :
              (~IsEnrolled(students, u) /\ IsEnrolled(students', u)) =>
                  /\ Served
                  /\ Registered(resp', u)
                  /\ env.can_register
       /\ \A u \in Users :
              (~students[u].exists /\ students'[u].exists) =>
                  Served /\ Registered(resp', u)
       /\ (/\ Served
           /\ resp'.handler = "RegisterHandler"
           /\ resp'.method = "GET"
           /\ resp'.user \in Users
           /\ IsEnrolled(students, resp'.user)) =>
              /\ resp'.status = 302
              /\ resp'.location = SlugPrefixed(PathCourse)
              /\ resp'.rendered = NoTemplate
       /\ (/\ Served
           /\ resp'.handler = "StudentUnenrollHandler"
           /\ resp'.method = "POST"
           /\ resp'.student \in Users
           /\ CarriesValidToken(resp')) =>
              /\ IsEnrolled(students, resp'.user)
              /\ ~IsEnrolled(students', resp'.user)
              /\ students'[resp'.user].exists
       /\ (/\ Served
           /\ resp'.resolver = "get_enrolled"
           /\ ~resp'.supports_transient_student
           /\ resp'.user \in Users
           /\ ~IsEnrolled(students, resp'.user)) =>
              /\ resp'.student = None
              /\ resp'.status = 302
              /\ resp'.location = SlugPrefixed(PathPreview)
              /\ ~IsEnrolled(students', resp'.user)
      ]_vars

C14_Witness ==
    /\ resp.pc = "done"
    /\ resp.handler = "StudentUnenrollHandler"
    /\ resp.method = "POST"
    /\ resp.user \in Users
    /\ resp.xsrf_token = create_xsrf_token("student-unenroll")
    /\ Write("set_enrollment_status", resp.user) \in WritesOf(resp)
    /\ students[resp.user].exists
    /\ ~students[resp.user].is_enrolled

(***************************************************************************)
(* C2: a POST whose action parameter is absent/empty or not in             *)
(* post_actions gets 404 and no handler is invoked; the default action is  *)
(* never substituted on the write path.                                    *)
(***************************************************************************)
C2_PostUnknownActionIs404 ==
    (/\ dresp.pc = "done"
     /\ dresp.method = "POST"
     /\ (dresp.action = "" \/ dresp.action \notin cls.post_actions)) =>
        /\ dresp.out.status = 404
        /\ dresp.out.invoked = NoHandler
        /\ dresp.out.raised = None

C2_Witness ==
    /\ dresp.pc = "done"
    /\ dresp.method = "POST"
    /\ dresp.action = ""
    /\ cls.default_action \in cls.post_actions
    /\ cls.attrs[<<"post", cls.default_action>>] = "bound"
    /\ dresp.xsrf_token = create_xsrf_token(cls.default_action)
    /\ dresp.out.status = 404
    /\ dresp.out.invoked = NoHandler

(***************************************************************************)
(* C3: a POST whose action is in post_actions and has a bound handler gets *)
(* 403 and the handler is not invoked when the token is missing, issued    *)
(* for another action or otherwise not valid for this action; the handler  *)
(* is invoked only when the token validates for this exact action.         *)
(***************************************************************************)
C3_PostNeedsTokenForThisAction ==
    (/\ dresp.pc = "done"
     /\ dresp.method = "POST"
     /\ dresp.action \in cls.post_actions
     /\ cls.attrs[<<"post", dresp.action>>] = "bound") =>
        /\ (\/ dresp.xsrf_token.state # "fresh"
            \/ dresp.xsrf_token.action # dresp.action) =>
                /\ dresp.out.status = 403
                /\ dresp.out.invoked = NoHandler
        /\ dresp.out.invoked # NoHandler =>
                /\ dresp.out.invoked = <<"post", dresp.action>>
                /\ dresp.xsrf_token.state = "fresh"
                /\ dresp.xsrf_token.action = dresp.action

C3_Witness ==
    /\ dresp.pc = "done"
    /\ dresp.method = "POST"
    /\ dresp.action \in cls.post_actions
    /\ cls.attrs[<<"post", dresp.action>>] = "bound"
    /\ dresp.xsrf_token.state = "fresh"
    /\ dresp.xsrf_token.action \in cls.post_actions
    /\ dresp.xsrf_token.action # dresp.action
    /\ dresp.out.status = 403
    /\ dresp.out.invoked = NoHandler

(***************************************************************************)
(* C4: an action in the allow-list with no handler method get_<action> /   *)
(* post_<action> gets 404, as an action outside the allow-list does; no    *)
(* exception leaves get() / post().                                        *)
(***************************************************************************)
ResolvedAction ==
    IF dresp.method = "GET" /\ dresp.action = ""
    THEN cls.default_action
    ELSE dresp.action

AllowList == IF dresp.method = "GET" THEN cls.get_actions ELSE cls.post_actions

HandlerAttr ==
    cls.attrs[<<IF dresp.method = "GET" THEN "get" ELSE "post", ResolvedAction>>]

C4_MissingHandlerIs404 ==
    (/\ dresp.pc = "done"
     /\ ResolvedAction \in AllowList
     /\ HandlerAttr # "bound") =>
        /\ dresp.out.status = 404
        /\ dresp.out.raised = None
        /\ dresp.out.invoked = NoHandler

C9_CanonicalizeUrl ==
    (url.pc = "done" /\ url.op = "canonicalize_url") =>
        /\ url.out =
              IF /\ ~is_absolute(url.location)
                 /\ ~startswith(url.location, url.slug)
                 /\ url.slug # <<>>
                 /\ url.slug # <<"/">>
              THEN url.slug \o url.location
              ELSE url.location
        /\ (url.slug = SlugPhysics /\ url.location = PathCourse) =>
              url.out = <<"/", "p", "h", "y", "s", "i", "c", "s",
                          "/", "c", "o", "u", "r", "s", "e">>
        /\ url.slug = <<"/">> => url.out = url.location
        /\ url.location = AbsoluteLogin => url.out = AbsoluteLogin
        /\ is_absolute(url.location) => url.out = url.location

C9_Witness ==
    /\ url.pc = "done"
    /\ url.op = "canonicalize_url"
    /\ url.slug = SlugPhysics
    /\ url.location = PathCourse
    /\ url.out = SlugPhysics \o PathCourse

(***************************************************************************)
(* C10: for every non-absolute redirect target and every course slug other *)
(* than '/', the location of a normalized redirect is the slug itself or   *)
(* the slug followed by a '/'-separated path. (A course slug is a          *)
(* non-empty path, so the empty slug is not among the cases.)              *)
(***************************************************************************)
InNamespace(slug, location) ==
    \/ location = slug
    \/ /\ startswith(location, slug)
       /\ Len(location) > Len(slug)
       /\ location[Len(slug) + 1] = "/"

C10_RedirectStaysInNamespace ==
    (/\ url.pc = "done"
     /\ url.op = "redirect"
     /\ url.normalize
     /\ ~is_absolute(url.location)
     /\ url.slug # <<>>
     /\ url.slug # Root) => InNamespace(url.slug, url.out)

====
